---- MODULE Spec2Model ----
(***************************************************************************)
(* A model of apilytics-python: the ApilyticsSender context manager        *)
(* (apilytics/core.py), the shared single-thread executor it submits its   *)
(* send task to, the system metrics samplers, and the Django, FastAPI and  *)
(* Flask adapters: their set-up and the way of a request through them.     *)
(*                                                                         *)
(* Python values.  An Optional value is a tuple: None is <<>> and a value  *)
(* v is <<v>>, so that None, "" and 0 stay three different values.         *)
(* An exception is the name of its class; Mro gives the classes an         *)
(* `except` clause matches it against.                                     *)
(***************************************************************************)
EXTENDS Integers, Sequences, FiniteSets, TLC

VARIABLES
    app,              \* the application: its framework, its API key setting, its middleware
    platform_system,  \* what platform.system() returns in this process
    proc,             \* the /proc files of the host, where a specification fixes them
    http,             \* http[s]: the HTTP request that the framework hands to the adapter
    pc,               \* pc[s]: where the thread that serves request s stands
    sess,             \* sess[s]: the attributes of the ApilyticsSender of request s
    handler_result,   \* handler_result[s]: what the wrapped operation returned or raised
    outcome,          \* outcome[s]: what the with-statement of request s ended with
    now,              \* time.perf_counter_ns()
    class_executor,   \* ApilyticsSender._executor: 0 while the attribute is missing
    n_executors,      \* how many ThreadPoolExecutor objects were constructed
    queue,            \* queue[e]: the work queue of executor e (sessions whose task waits)
    running,          \* running[e]: the session whose task the worker of e runs, or 0
    sample,           \* sample[e]: what the task that executor e took last has sampled
    posts,            \* posts[s]: the calls of urlopen for session s: the body, and how it ended
    future,           \* future[s]: the state of the Future of the task of s
    args,             \* args[s]: history: what __init__ of session s was called with
    ended,            \* ended[s]: history: the session at each submit of its task, and
                      \* whether it was written to before that task built its body
    submitted,        \* the sessions whose task was submitted and has not ended, in the
                      \* order of the calls of submit
    last_info         \* last_info[s]: history: the arguments of the last call of
                      \* set_response_info on session s

vars == <<app, platform_system, proc, http, pc, sess, handler_result, outcome, now, class_executor,
          n_executors, queue, running, sample, posts, future, args, ended, submitted, last_info>>

----------------------------------------------------------------------------
(* Bounds *)

\* How many requests (sessions, each in its own thread) a behaviour serves.
NumSessions == 2

\* How many with-statements one session object is used for, where a
\* specification lets user code use it again.
MaxEnters == 2

Sessions == 1 .. NumSessions

\* An executor is only ever constructed by a session's __exit__, once at most.
Executors == 1 .. NumSessions

----------------------------------------------------------------------------
(* Python values *)

None == <<>>

Some(v) == <<v>>

\* bool(x) of an Optional[str]: None and "" are falsy.
Truthy(x) == x # None /\ x[1] # ""

OptStr == {None, Some(""), Some("v")}

OptSize == {None, Some(0), Some(5)}

OptStatus == {None, Some(0), Some(200)}

\* The classes of an exception, itself included (its method resolution order).
Mro(exc) ==
    CASE exc = "URLError"           -> {"URLError", "OSError", "Exception"}
      [] exc = "HTTPError"          -> {"HTTPError", "URLError", "OSError", "Exception"}
      [] exc = "RemoteDisconnected" -> {"RemoteDisconnected", "ConnectionResetError",
                                        "OSError", "Exception"}
      [] exc = "timeout"            -> {"timeout", "OSError", "Exception"}
      [] exc = "PermissionError"    -> {"PermissionError", "OSError", "Exception"}
      [] exc = "ValueError"         -> {"ValueError", "Exception"}
      [] exc = "IndexError"         -> {"IndexError", "LookupError", "Exception"}
      [] exc = "RuntimeError"       -> {"RuntimeError", "Exception"}
      [] exc = "TypeError"          -> {"TypeError", "Exception"}
      [] exc = "AttributeError"     -> {"AttributeError", "Exception"}
      [] OTHER                      -> {exc, "Exception"}

\* `except cls:` matches exc.
Catches(cls, exc) == cls \in Mro(exc)

\* str.split(sep) on a string given by its pieces.
RECURSIVE Split(_, _)
Split(seq, sep) ==
    LET at == {i \in 1 .. Len(seq) : seq[i] = sep}
    IN  IF at = {} THEN <<seq>>
        ELSE LET i == CHOOSE x \in at : \A y \in at : x <= y
             IN  <<SubSeq(seq, 1, i - 1)>> \o Split(SubSeq(seq, i + 1, Len(seq)), sep)

\* A header value is the sequence of its characters.  str.strip(): without the
\* whitespace at both ends.
RECURSIVE strip(_)
strip(cs) ==
    IF cs = <<>> THEN cs
    ELSE IF cs[1] = " " THEN strip(Tail(cs))
    ELSE IF cs[Len(cs)] = " " THEN strip(SubSeq(cs, 1, Len(cs) - 1))
    ELSE cs

\* The str of a sequence of characters.
RECURSIVE Join(_)
Join(cs) == IF cs = <<>> THEN "" ELSE cs[1] \o Join(Tail(cs))

DigitValue ==
    "0" :> 0 @@ "1" :> 1 @@ "2" :> 2 @@ "3" :> 3 @@ "4" :> 4 @@
    "5" :> 5 @@ "6" :> 6 @@ "7" :> 7 @@ "8" :> 8 @@ "9" :> 9

RECURSIVE DecimalValue(_)
DecimalValue(cs) ==
    IF cs = <<>> THEN 0
    ELSE 10 * DecimalValue(SubSeq(cs, 1, Len(cs) - 1)) + DigitValue[cs[Len(cs)]]

\* int(str): the value of the decimal digits between surrounding whitespace;
\* ValueError for the empty string and for any other character.
int(cs) ==
    LET t == strip(cs)
    IN  IF t = <<>> \/ \E i \in 1 .. Len(t) : t[i] \notin DOMAIN DigitValue
        THEN [exc |-> Some("ValueError"), value |-> 0]
        ELSE [exc |-> None, value |-> DecimalValue(t)]

----------------------------------------------------------------------------
(* System metrics sampler *)

\* One whitespace-separated token of a line of /proc/stat: a decimal number,
\* or text that int() rejects.
Num(n) == [num |-> TRUE, val |-> n]

Word == [num |-> FALSE, val |-> 0]

\* What open("/proc/stat") followed by readline() gives: the exception open
\* raised, or the tokens of the first line ("cpu" and the counters).
StatRead(tokens) == [err |-> None, line |-> tokens]

StatFails(exc) == [err |-> Some(exc), line |-> <<>>]

\* seq[a:b] of Python, 0-based and clipped to the sequence.
Slice(seq, a, b) ==
    IF a >= Len(seq) THEN <<>>
    ELSE SubSeq(seq, a + 1, IF b < Len(seq) THEN b ELSE Len(seq))

RECURSIVE SumVals(_)
SumVals(toks) == IF toks = <<>> THEN 0 ELSE toks[1].val + SumVals(Tail(toks))

Raised(exc) == [exc |-> Some(exc), idle |-> 0, total |-> 0]

\* Variant: the two guest counters are summed too.
cpu_times_counts_guest(read) ==
    IF read.err # None THEN Raised(read.err[1])
    ELSE LET times == Slice(read.line, 1, 11)
         IN  IF \E i \in 1 .. Len(times) : ~times[i].num THEN Raised("ValueError")
             ELSE IF Len(times) < 4 THEN Raised("IndexError")
             ELSE [exc   |-> None,
                   idle  |-> times[4].val + (IF Len(times) >= 5 THEN times[5].val ELSE 0),
                   total |-> SumVals(times)]

\* cpu_times(): (idle, total) of one read of /proc/stat, or the exception that
\* leaves the function.
cpu_times(read) ==
    IF read.err # None THEN Raised(read.err[1])
    ELSE LET times == Slice(read.line, 1, 9)
         IN  IF \E i \in 1 .. Len(times) : ~times[i].num THEN Raised("ValueError")
             ELSE IF Len(times) < 4 THEN Raised("IndexError")
             ELSE [exc   |-> None,
                   idle  |-> times[4].val + (IF Len(times) >= 5 THEN times[5].val ELSE 0),
                   total |-> SumVals(times)]

\* A float as the exact fraction num / den.
Frac(n, d) == <<n, d>>

\* Variant: a zero total difference gives no sample.
usage_none_on_zero(d_idle, d_total) ==
    IF d_total = 0 THEN None ELSE Some(Frac(d_total - d_idle, d_total))

\* Variant: the idle share is added instead of subtracted.
usage_adds_idle(d_idle, d_total) ==
    IF d_total = 0 THEN Some(Frac(0, 1)) ELSE Some(Frac(d_total + d_idle, d_total))

\* The last lines of _get_cpu_usage: 1 - idle_diff / total_diff, and 0.0 where
\* the division raises ZeroDivisionError.
usage(d_idle, d_total) ==
    IF d_total = 0 THEN Some(Frac(0, 1)) ELSE Some(Frac(d_total - d_idle, d_total))

\* _get_cpu_usage(): value is the Optional[float] returned, exc the exception
\* that escapes instead, opens the number of times /proc/stat was opened.
get_cpu_usage(system, read1, read2) ==
    IF system # "Linux" THEN [exc |-> None, value |-> None, opens |-> 0]
    ELSE LET t1 == cpu_times(read1)
             t2 == cpu_times(read2)
         IN  IF t1.exc # None
             THEN IF Catches("OSError", t1.exc[1])
                  THEN [exc |-> None, value |-> None, opens |-> 1]
                  ELSE [exc |-> t1.exc, value |-> None, opens |-> 1]
             ELSE IF t2.exc # None
             THEN IF Catches("OSError", t2.exc[1])
                  THEN [exc |-> None, value |-> None, opens |-> 2]
                  ELSE [exc |-> t2.exc, value |-> None, opens |-> 2]
             ELSE LET d_idle  == t2.idle - t1.idle
                      d_total == t2.total - t1.total
                  IN  [exc |-> None, value |-> usage(d_idle, d_total), opens |-> 2]

\* What open("/proc/meminfo") and read() give: the exception raised, or the
\* numbers (in kB) the two regular expressions find, None where one finds nothing.
MemInfo(total_kb, available_kb) == [err |-> None, total |-> total_kb, available |-> available_kb]

MemFails(exc) == [err |-> Some(exc), total |-> None, available |-> None]

\* Variant: kB taken as 1000 bytes.
KiB_decimal == 10 * 100

KiB == 1024

\* Variant: no test of platform.system().
get_used_and_total_memory_any_platform(system, meminfo) ==
    IF meminfo.err # None THEN [used |-> None, total |-> None, opens |-> 1]
    ELSE IF meminfo.total = None THEN [used |-> None, total |-> None, opens |-> 1]
    ELSE LET total == meminfo.total[1] * KiB
         IN  IF meminfo.available = None
             THEN [used |-> None, total |-> Some(total), opens |-> 1]
             ELSE [used |-> Some(total - meminfo.available[1] * KiB),
                   total |-> Some(total), opens |-> 1]

\* Variant: used memory is reported without the total.
get_used_and_total_memory_used_alone(system, meminfo) ==
    IF system # "Linux" THEN [used |-> None, total |-> None, opens |-> 0]
    ELSE IF meminfo.err # None THEN [used |-> None, total |-> None, opens |-> 1]
    ELSE IF meminfo.available = None
    THEN [used |-> None, total |-> IF meminfo.total = None THEN None
                                   ELSE Some(meminfo.total[1] * KiB), opens |-> 1]
    ELSE IF meminfo.total = None
    THEN [used |-> Some(0 - meminfo.available[1] * KiB), total |-> None, opens |-> 1]
    ELSE [used |-> Some(meminfo.total[1] * KiB - meminfo.available[1] * KiB),
          total |-> Some(meminfo.total[1] * KiB), opens |-> 1]

\* Variant: the total is subtracted from the available memory.
get_used_and_total_memory_swaps_operands(system, meminfo) ==
    IF system # "Linux" THEN [used |-> None, total |-> None, opens |-> 0]
    ELSE IF meminfo.err # None THEN [used |-> None, total |-> None, opens |-> 1]
    ELSE IF meminfo.total = None THEN [used |-> None, total |-> None, opens |-> 1]
    ELSE LET total == meminfo.total[1] * KiB
         IN  IF meminfo.available = None
             THEN [used |-> None, total |-> Some(total), opens |-> 1]
             ELSE [used |-> Some(meminfo.available[1] * KiB - total),
                   total |-> Some(total), opens |-> 1]

\* _get_used_and_total_memory(): the pair (used, total), and whether the file was opened.
get_used_and_total_memory(system, meminfo) ==
    IF system # "Linux" THEN [used |-> None, total |-> None, opens |-> 0]
    ELSE IF meminfo.err # None THEN [used |-> None, total |-> None, opens |-> 1]
    ELSE IF meminfo.total = None THEN [used |-> None, total |-> None, opens |-> 1]
    ELSE LET total == meminfo.total[1] * KiB
         IN  IF meminfo.available = None
             THEN [used |-> None, total |-> Some(total), opens |-> 1]
             ELSE [used |-> Some(total - meminfo.available[1] * KiB),
                   total |-> Some(total), opens |-> 1]

----------------------------------------------------------------------------
(* The JSON body *)

EmptyDict == [k \in {} |-> None]

Entry(k, v) == [x \in {k} |-> v]

NsPerMs == 1000000

\* The conditional inclusion of one optional string / one optional number.
\* Variant: tests `is not None`, so an empty string is sent.
IfTruthy_sends_empty(k, v) == IF v # None THEN Entry(k, v) ELSE EmptyDict

IfTruthy(k, v) == IF Truthy(v) THEN Entry(k, v) ELSE EmptyDict

IfNotNone(k, v) == IF v # None THEN Entry(k, v) ELSE EmptyDict

\* Variant: rounds to the nearest millisecond.
TimeMillis_rounds(self) ==
    (self.end_time_ns[1] - self.start_time_ns[1] + 500000) \div NsPerMs

\* (self._end_time_ns - self._start_time_ns) // 1_000_000: floor division.
TimeMillis(self) == (self.end_time_ns[1] - self.start_time_ns[1]) \div NsPerMs

\* Variant: the status code is sent whether it is set or not.
Data_null_status(self, cpu_usage, memory_usage, memory_total) ==
    Entry("path", self.path)
    @@ Entry("method", self.method)
    @@ Entry("timeMillis", Some(TimeMillis(self)))
    @@ IfTruthy("query", self.query)
    @@ IfTruthy("userAgent", self.user_agent)
    @@ IfTruthy("ip", self.ip)
    @@ Entry("statusCode", self.status_code)
    @@ IfNotNone("requestSize", self.request_size)
    @@ IfNotNone("responseSize", self.response_size)
    @@ IfNotNone("cpuUsage", cpu_usage)
    @@ IfNotNone("memoryUsage", memory_usage)
    @@ IfNotNone("memoryTotal", memory_total)

\* The dict `data` that _send_metrics builds from the session and the samples.
Data(self, cpu_usage, memory_usage, memory_total) ==
    Entry("path", self.path)
    @@ Entry("method", self.method)
    @@ Entry("timeMillis", Some(TimeMillis(self)))
    @@ IfTruthy("query", self.query)
    @@ IfTruthy("userAgent", self.user_agent)
    @@ IfTruthy("ip", self.ip)
    @@ IfNotNone("statusCode", self.status_code)
    @@ IfNotNone("requestSize", self.request_size)
    @@ IfNotNone("responseSize", self.response_size)
    @@ IfNotNone("cpuUsage", cpu_usage)
    @@ IfNotNone("memoryUsage", memory_usage)
    @@ IfNotNone("memoryTotal", memory_total)

\* Variant: the API key travels as a query parameter of a GET.
HttpRequest_get(self) ==
    [url     |-> "https://www.apilytics.io/api/v1/middleware",
     method  |-> "GET",
     headers |-> Entry("Content-Type", "application/json")
                 @@ Entry("Apilytics-Version", self.apilytics_version[1])]

\* The urllib.request.Request that _send_metrics builds.
HttpRequest(self) ==
    [url     |-> "https://www.apilytics.io/api/v1/middleware",
     method  |-> "POST",
     headers |-> Entry("Content-Type", "application/json")
                 @@ Entry("X-API-Key", self.api_key[1])
                 @@ Entry("Apilytics-Version", self.apilytics_version[1])]

\* `except urllib.error.URLError: pass` around urlopen: the exception that
\* leaves _send_metrics when urlopen ends with `result` ("ok" or an exception).
AfterUrlopen(result) ==
    IF result = "ok" THEN None
    ELSE IF Catches("URLError", result) THEN None
    ELSE Some(result)

----------------------------------------------------------------------------
(* The Apilytics-Version string *)

\* A string as the sequence of its pieces; the empty string has none, so
\* concatenating it adds nothing.
Text(str) == IF str = "" THEN <<>> ELSE <<str>>

\* What the template interpolates when the class is defined.
package_version == "apilytics.__version__"

python_version == "platform.python_version()"

sys_platform(system) == IF system = "Linux" THEN "linux" ELSE "darwin"

\* _apilytics_version_template.format(integration=..., library=...).
apilytics_version_template(integration, library, system) ==
    Text(integration) \o <<"/">> \o Text(package_version) \o <<";">>
    \o <<"python/">> \o Text(python_version) \o <<";">>
    \o Text(library) \o <<";">>
    \o Text(sys_platform(system))

\* Variant: `x if x is not None else default`.
Or_unless_none(x, default) == IF x # None THEN x[1] ELSE default

\* `x or default` on an Optional[str].
Or(x, default) == IF Truthy(x) THEN x[1] ELSE default

----------------------------------------------------------------------------
(* State *)

\* Variant: the status code defaults to 200 instead of None.
NoSession_status_200 ==
    [api_key |-> None, path |-> None, method |-> None, query |-> None,
     request_size |-> None, user_agent |-> None, ip |-> None,
     response_size |-> None, status_code |-> Some(200),
     start_time_ns |-> None, end_time_ns |-> None, apilytics_version |-> None]

\* The attributes of an ApilyticsSender; all None before __init__ has run.
NoSession ==
    [api_key |-> None, path |-> None, method |-> None, query |-> None,
     request_size |-> None, user_agent |-> None, ip |-> None,
     response_size |-> None, status_code |-> None,
     start_time_ns |-> None, end_time_ns |-> None, apilytics_version |-> None]

NoResult == [exc |-> None, response |-> None]

\* What a task has sampled, and how often it opened /proc/meminfo and /proc/stat.
NoSample ==
    [taken |-> FALSE, cpu_usage |-> None, memory_usage |-> None, memory_total |-> None,
     meminfo_opens |-> 0, stat_opens |-> 0]

\* The state after start-up: no request has arrived, no executor exists.  The
\* requests that will arrive are among `requests`.
InitHttp(a, systems, files, requests) ==
    /\ app = a
    /\ platform_system \in systems
    /\ proc \in files
    /\ http \in requests
    /\ args = [s \in Sessions |-> None]
    /\ ended = [s \in Sessions |-> <<>>]
    /\ pc = [s \in Sessions |-> "idle"]
    /\ sess = [s \in Sessions |-> NoSession]
    /\ handler_result = [s \in Sessions |-> NoResult]
    /\ outcome = [s \in Sessions |-> NoResult]
    /\ now = 0
    /\ class_executor = 0
    /\ n_executors = 0
    /\ queue = [e \in Executors |-> <<>>]
    /\ running = [e \in Executors |-> 0]
    /\ sample = [e \in Executors |-> NoSample]
    /\ posts = [s \in Sessions |-> <<>>]
    /\ submitted = <<>>
    /\ last_info = [s \in Sessions |-> None]
    /\ future = [s \in Sessions |-> "none"]

\* The caller is user code, not a framework: there is no HTTP request object.
NoHttp == [path |-> "", method |-> ""]

InitState(a, systems, files) == InitHttp(a, systems, files, {[s \in Sessions |-> NoHttp]})

\* The files of /proc are not fixed: every task reads what it finds.
NoProbe == [meminfo |-> None, stat1 |-> None, stat2 |-> None]

InitWith(a, systems) == InitState(a, systems, {NoProbe})

\* The tasks of session s that have not built their body yet see the session
\* as it is written to now, not as it was when they were submitted.
Touch(s) ==
    [ended EXCEPT ![s] =
        [i \in 1 .. Len(@) |-> IF i > Len(posts[s]) THEN [@[i] EXCEPT !.touched = TRUE] ELSE @[i]]]

\* The same for a write that starts the timer anew.
Restart(s) ==
    [ended EXCEPT ![s] =
        [i \in 1 .. Len(@) |-> IF i > Len(posts[s])
                                THEN [@[i] EXCEPT !.touched = TRUE, !.restarted = TRUE]
                                ELSE @[i]]]

----------------------------------------------------------------------------
(* ApilyticsSender, as the thread of request s runs it *)

\* __init__: store the request attributes verbatim.
init(s, requests) ==
    /\ app.state = "active"
    /\ pc[s] = "idle"
    /\ \E r \in requests :
         /\ args' = [args EXCEPT ![s] = Some(r)]
         /\ sess' = [sess EXCEPT ![s] =
                       [NoSession EXCEPT !.api_key = app.api_key,
                                         !.path = r.path, !.method = r.method,
                                         !.query = r.query, !.request_size = r.request_size,
                                         !.user_agent = r.user_agent, !.ip = r.ip,
                                         !.apilytics_version =
                                             Some(apilytics_version_template(
                                                 Or(r.apilytics_integration, "apilytics-python-core"),
                                                 Or(r.integrated_library, ""),
                                                 platform_system))]]
    /\ pc' = [pc EXCEPT ![s] = "created"]
    /\ UNCHANGED <<app, platform_system, proc, http, last_info, submitted, ended, handler_result, outcome, now, class_executor,
                   n_executors, queue, running, sample, posts, future>>

\* __enter__: start the timer.
enter(s) ==
    /\ pc[s] = "created"
    /\ sess' = [sess EXCEPT ![s].start_time_ns = Some(now)]
    /\ pc' = [pc EXCEPT ![s] = "entered"]
    /\ UNCHANGED <<app, platform_system, proc, http, last_info, submitted, args, ended, handler_result, outcome, now, class_executor,
                   n_executors, queue, running, sample, posts, future>>

\* __enter__ on a session whose with-block has ended, d nanoseconds later: the
\* same object is used for a second with-statement.  __enter__ has no check of
\* the session's state either; it starts the timer anew.
enter_again(s, delays) ==
    /\ pc[s] = "done"
    /\ ended[s] # <<>>
    /\ Len(ended[s]) < MaxEnters
    /\ \E d \in delays :
         /\ now' = now + d
         /\ sess' = [sess EXCEPT ![s].start_time_ns = Some(now + d)]
    /\ pc' = [pc EXCEPT ![s] = "entered"]
    /\ ended' = Restart(s)
    /\ UNCHANGED <<app, platform_system, proc, http, last_info, submitted, args, handler_result, outcome, class_executor,
                   n_executors, queue, running, sample, posts, future>>

\* The wrapped operation: it takes d nanoseconds and returns a response or raises.
handler(s, durations, responses) ==
    /\ pc[s] = "entered"
    /\ \E d \in durations : now' = now + d
    /\ \/ \E r \in responses :
            /\ handler_result' = [handler_result EXCEPT ![s] = [exc |-> None, response |-> Some(r)]]
            /\ pc' = [pc EXCEPT ![s] = "handled"]
       \/ /\ handler_result' = [handler_result EXCEPT ![s] =
                                  [exc |-> Some("RuntimeError"), response |-> None]]
          /\ pc' = [pc EXCEPT ![s] = "leaving"]
    /\ UNCHANGED <<app, platform_system, proc, http, last_info, submitted, args, ended, sess, outcome, class_executor,
                   n_executors, queue, running, sample, posts, future>>

\* set_response_info(status_code=..., response_size=...), called in the with-block.
set_response_info(s, infos) ==
    /\ pc[s] = "handled"
    /\ \E i \in infos :
         /\ sess' = [sess EXCEPT ![s].status_code = i.status_code,
                                 ![s].response_size = i.response_size]
         /\ last_info' = [last_info EXCEPT ![s] = Some(i)]
    /\ pc' = [pc EXCEPT ![s] = "leaving"]
    /\ ended' = Touch(s)
    /\ UNCHANGED <<app, platform_system, proc, http, submitted, args, handler_result, outcome, now, class_executor,
                   n_executors, queue, running, sample, posts, future>>

\* Variant: an argument that is None leaves the attribute as it was.
set_response_info_again_merges(s, infos) ==
    /\ pc[s] = "leaving"
    /\ handler_result[s].exc = None
    /\ \E i \in infos :
         /\ sess' = [sess EXCEPT ![s].status_code = IF i.status_code = None THEN @ ELSE i.status_code,
                                 ![s].response_size = IF i.response_size = None THEN @ ELSE i.response_size]
         /\ last_info' = [last_info EXCEPT ![s] = Some(i)]
    /\ ended' = Touch(s)
    /\ UNCHANGED <<app, platform_system, proc, http, submitted, args, pc, handler_result, outcome, now, class_executor,
                   n_executors, queue, running, sample, posts, future>>

\* set_response_info called once more in the with-block: both attributes are
\* assigned again, whatever they were.
set_response_info_again(s, infos) ==
    /\ pc[s] = "leaving"
    /\ handler_result[s].exc = None
    /\ \E i \in infos :
         /\ sess' = [sess EXCEPT ![s].status_code = i.status_code,
                                 ![s].response_size = i.response_size]
         /\ last_info' = [last_info EXCEPT ![s] = Some(i)]
    /\ ended' = Touch(s)
    /\ UNCHANGED <<app, platform_system, proc, http, submitted, args, pc, handler_result, outcome, now, class_executor,
                   n_executors, queue, running, sample, posts, future>>

\* set_response_info called where its docstring says it should not be: after
\* the with-block has ended.  The method has no check of the session's state.
set_response_info_late(s, infos) ==
    /\ pc[s] = "done"
    /\ ended[s] # <<>>
    /\ \E i \in infos :
         /\ sess' = [sess EXCEPT ![s].status_code = i.status_code,
                                 ![s].response_size = i.response_size]
         /\ last_info' = [last_info EXCEPT ![s] = Some(i)]
    /\ ended' = Touch(s)
    /\ UNCHANGED <<app, platform_system, proc, http, submitted, args, pc, handler_result, outcome, now, class_executor,
                   n_executors, queue, running, sample, posts, future>>

\* __exit__, first part: stop the timer and test hasattr(self, "_executor").
exit_check(s) ==
    /\ pc[s] \in {"handled", "leaving"}
    /\ sess' = [sess EXCEPT ![s].end_time_ns = Some(now)]
    /\ pc' = [pc EXCEPT ![s] = IF class_executor = 0 THEN "create" ELSE "submit"]
    /\ ended' = Touch(s)
    /\ UNCHANGED <<app, platform_system, proc, http, last_info, submitted, args, handler_result, outcome, now, class_executor,
                   n_executors, queue, running, sample, posts, future>>

\* __exit__, the body of the if: construct a ThreadPoolExecutor(max_workers=1)
\* and bind it to the class attribute.
exit_create(s) ==
    /\ pc[s] = "create"
    /\ n_executors' = n_executors + 1
    /\ class_executor' = n_executors + 1
    /\ pc' = [pc EXCEPT ![s] = "submit"]
    /\ UNCHANGED <<app, platform_system, proc, http, last_info, submitted, args, ended, sess, handler_result, outcome, now,
                   queue, running, sample, posts, future>>

\* Variant: __exit__ returns True.
exit_returns_true_swallows == TRUE

\* bool() of what __exit__ returns (None): a true value would make the
\* with-statement swallow the exception of its block.
exit_returns_true == FALSE

\* How the with-statement ends once __exit__ has returned: with what its
\* block ended with, unless __exit__ swallowed the exception.
with_outcome(result) ==
    IF result.exc # None /\ exit_returns_true THEN NoResult ELSE result

\* Variant: a hand-over that waits for the worker to be free.
submit_ready_when_idle(e) == running[e] = 0 /\ queue[e] = <<>>

\* Executor.submit: the put on the unbounded work queue of executor e never waits.
submit_ready(e) == TRUE

\* Variant: the caller waits for Future.result(), which re-raises.
surfaced_reraises(o, raised) == IF raised # None THEN [exc |-> raised, response |-> None] ELSE o

\* What the thread that ended the session sees of its task: the Future that
\* submit returned is dropped, so whatever `raised` the task ends with, the
\* outcome `o` of the with-statement stays as it is.
surfaced(o, raised) == o

\* Variant: nothing is submitted when the block raised.
exit_submit_unless_raised(s) ==
    /\ pc[s] = "submit"
    /\ IF handler_result[s].exc # None
       THEN UNCHANGED <<queue, future, ended, submitted>>
       ELSE /\ queue' = [queue EXCEPT ![class_executor] = Append(@, s)]
            /\ submitted' = Append(submitted, s)
            /\ future' = [future EXCEPT ![s] = "pending"]
            /\ ended' = [ended EXCEPT ![s] = Append(@, [self |-> sess[s], touched |-> FALSE, restarted |-> FALSE])]
    /\ outcome' = [outcome EXCEPT ![s] = with_outcome(handler_result[s])]
    /\ pc' = [pc EXCEPT ![s] = "done"]
    /\ UNCHANGED <<app, platform_system, proc, http, last_info, args, sess, handler_result, now, class_executor,
                   n_executors, running, sample, posts>>

\* __exit__, last part: self._executor.submit(self._send_metrics) puts the task
\* on the queue of the executor the attribute names now and returns its Future,
\* which is dropped; then the with-statement ends.
exit_submit(s) ==
    /\ pc[s] = "submit"
    /\ submit_ready(class_executor)
    /\ queue' = [queue EXCEPT ![class_executor] = Append(@, s)]
    /\ submitted' = Append(submitted, s)
    /\ future' = [future EXCEPT ![s] = "pending"]
    /\ ended' = [ended EXCEPT ![s] = Append(@, [self |-> sess[s], touched |-> FALSE, restarted |-> FALSE])]
    /\ outcome' = [outcome EXCEPT ![s] = with_outcome(handler_result[s])]
    /\ pc' = [pc EXCEPT ![s] = "done"]
    /\ UNCHANGED <<app, platform_system, proc, http, last_info, args, sess, handler_result, now, class_executor,
                   n_executors, running, sample, posts>>

----------------------------------------------------------------------------
(* The worker thread of executor e *)

\* The submitted tasks once the oldest task of session s has ended.
RECURSIVE Ended(_, _)
Ended(tasks, s) ==
    IF tasks = <<>> THEN tasks
    ELSE IF Head(tasks) = s THEN Tail(tasks)
    ELSE <<Head(tasks)>> \o Ended(Tail(tasks), s)

\* Variant: an executor that counts as broken once a task of it has raised
\* (as a process pool does once a worker died) and runs nothing more.
worker_take_unless_broken(e) ==
    /\ \A s \in Sessions : future[s] \in {"none", "pending", "finished"}
    /\ e <= n_executors
    /\ running[e] = 0
    /\ queue[e] # <<>>
    /\ running' = [running EXCEPT ![e] = Head(queue[e])]
    /\ queue' = [queue EXCEPT ![e] = Tail(@)]
    /\ sample' = [sample EXCEPT ![e] = NoSample]
    /\ UNCHANGED <<app, platform_system, proc, http, last_info, submitted, args, ended, pc, sess, handler_result,
                   outcome, now, class_executor, n_executors, posts, future>>

\* Variant: a hand-over slot instead of a queue: the worker takes the newest
\* work item and the items that waited before it are lost.
worker_take_drops_waiting(e) ==
    /\ e <= n_executors
    /\ running[e] = 0
    /\ queue[e] # <<>>
    /\ running' = [running EXCEPT ![e] = queue[e][Len(queue[e])]]
    /\ queue' = [queue EXCEPT ![e] = <<>>]
    /\ sample' = [sample EXCEPT ![e] = NoSample]
    /\ UNCHANGED <<app, platform_system, proc, http, last_info, submitted, args, ended, pc, sess, handler_result, outcome, now,
                   class_executor, n_executors, posts, future>>

\* The worker takes the next work item off its queue.
worker_take(e) ==
    /\ e <= n_executors
    /\ running[e] = 0
    /\ queue[e] # <<>>
    /\ running' = [running EXCEPT ![e] = Head(queue[e])]
    /\ queue' = [queue EXCEPT ![e] = Tail(@)]
    /\ sample' = [sample EXCEPT ![e] = NoSample]
    /\ UNCHANGED <<app, platform_system, proc, http, last_info, submitted, args, ended, pc, sess, handler_result, outcome, now,
                   class_executor, n_executors, posts, future>>

\* _send_metrics, first two lines: sample memory, then CPU (two reads of
\* /proc/stat one second apart).  An exception that escapes the sampler ends
\* the task: the worker stores it in the Future and goes on.
send_metrics_sample(e, probes) ==
    /\ running[e] # 0
    /\ ~sample[e].taken
    /\ \E p \in probes :
         LET mem == get_used_and_total_memory(platform_system, p.meminfo)
             cpu == get_cpu_usage(platform_system, p.stat1, p.stat2)
         IN  IF cpu.exc # None
             THEN /\ future' = [future EXCEPT ![running[e]] = cpu.exc[1]]
                  /\ submitted' = Ended(submitted, running[e])
                  /\ outcome' = [outcome EXCEPT ![running[e]] = surfaced(@, cpu.exc)]
                  /\ running' = [running EXCEPT ![e] = 0]
                  /\ UNCHANGED sample
             ELSE /\ sample' = [sample EXCEPT ![e] =
                                  [taken |-> TRUE, cpu_usage |-> cpu.value,
                                   memory_usage |-> mem.used, memory_total |-> mem.total,
                                   meminfo_opens |-> mem.opens, stat_opens |-> cpu.opens]]
                  /\ UNCHANGED <<future, running, outcome, submitted>>
    /\ UNCHANGED <<app, platform_system, proc, http, last_info, args, ended, pc, sess, handler_result, now,
                   class_executor, n_executors, queue, posts>>

\* _send_metrics, the rest: build the body from the session as it is now and
\* call urlopen once; the worker stores what leaves the task in the Future.
send_metrics_post(e, results) ==
    /\ running[e] # 0
    /\ sample[e].taken
    /\ LET s == running[e]
           data == Data(sess[s], sample[e].cpu_usage, sample[e].memory_usage,
                        sample[e].memory_total)
       IN  \E r \in results :
             /\ posts' = [posts EXCEPT ![s] =
                            Append(@, [request |-> HttpRequest(sess[s]), data |-> data,
                                       result |-> r])]
             /\ future' = [future EXCEPT ![s] =
                             IF AfterUrlopen(r) = None THEN "finished" ELSE AfterUrlopen(r)[1]]
             /\ outcome' = [outcome EXCEPT ![s] = surfaced(@, AfterUrlopen(r))]
    /\ running' = [running EXCEPT ![e] = 0]
    /\ submitted' = Ended(submitted, running[e])
    /\ UNCHANGED <<app, platform_system, proc, http, last_info, args, ended, pc, sess, handler_result, now,
                   class_executor, n_executors, queue, sample>>

----------------------------------------------------------------------------
(* The framework adapters: what setting the middleware up leaves behind *)

\* Variant: only a missing key, not an empty one, disables the middleware.
django_middleware_init_unless_none(api_key) == IF api_key = None THEN "inert" ELSE "active"

\* apilytics.django.ApilyticsMiddleware.__init__: without a key it raises
\* MiddlewareNotUsed, and Django leaves the middleware out of the chain.
django_middleware_init(api_key) == IF ~Truthy(api_key) THEN "inert" ELSE "active"

\* apilytics.fastapi.ApilyticsMiddleware.__init__: without a key dispatch_func
\* becomes skipped_dispatch, which only awaits call_next(request).
fastapi_middleware_init(api_key) == IF ~Truthy(api_key) THEN "inert" ELSE "active"

\* apilytics.flask.apilytics_middleware: without a key the app is returned as
\* it came, with no hook registered.
flask_apilytics_middleware(api_key) == IF ~Truthy(api_key) THEN "inert" ELSE "active"

\* The application is configured once, before it serves requests.
setup ==
    /\ app.state = "new"
    /\ app' = [app EXCEPT !.state =
                  CASE app.framework = "django"  -> django_middleware_init(app.api_key)
                    [] app.framework = "fastapi" -> fastapi_middleware_init(app.api_key)
                    [] app.framework = "flask"   -> flask_apilytics_middleware(app.api_key)]
    /\ UNCHANGED <<platform_system, proc, http, last_info, submitted, args, ended, pc, sess, handler_result, outcome, now, class_executor,
                   n_executors, queue, running, sample, posts, future>>

\* A request to an application whose middleware is inert goes to the wrapped
\* handler, and what the handler returns or raises is the request's outcome.
passthrough(s, durations, responses) ==
    /\ app.state = "inert"
    /\ pc[s] = "idle"
    /\ \E d \in durations : now' = now + d
    /\ \E r \in {[exc |-> None, response |-> Some(x)] : x \in responses}
                \cup {[exc |-> Some("RuntimeError"), response |-> None]} :
         /\ handler_result' = [handler_result EXCEPT ![s] = r]
         /\ outcome' = [outcome EXCEPT ![s] = r]
    /\ pc' = [pc EXCEPT ![s] = "done"]
    /\ UNCHANGED <<app, platform_system, proc, http, last_info, submitted, args, ended, sess, class_executor, n_executors, queue,
                   running, sample, posts, future>>

----------------------------------------------------------------------------
(* The framework adapters: one request through a middleware that has a key *)

\* The keyword-only parameters that ApilyticsSender.__init__ declares.
init_parameters ==
    {"api_key", "path", "method", "query", "request_size", "user_agent", "ip",
     "apilytics_integration", "integrated_library"}

\* f"{framework}/{framework.__version__}".
integrated_library(framework) == framework \o "/" \o framework \o ".__version__"

NoArgs ==
    [path |-> None, method |-> None, query |-> None, request_size |-> None,
     user_agent |-> None, ip |-> None,
     apilytics_integration |-> None, integrated_library |-> None]

\* The call ApilyticsSender(**keywords): a keyword that __init__ does not
\* declare raises TypeError before __init__ runs.
SenderCall(keywords, request) ==
    IF keywords \subseteq init_parameters
    THEN [exc |-> None, request |-> request]
    ELSE [exc |-> Some("TypeError"), request |-> NoArgs]

\* headers.get("x-forwarded-for", "").split(",")[0].strip().
first_forwarded_for(h) ==
    Join(strip(Split(IF h.x_forwarded_for = None THEN <<>> ELSE h.x_forwarded_for[1], ",")[1]))

\* apilytics.django.ApilyticsMiddleware.__call__: the arguments of the sender.
\* int(request.META.get("CONTENT_LENGTH", 0)) is evaluated before the call;
\* user_agent and ip are not passed.
django_sender_args(h) ==
    LET size == IF h.content_length = None THEN [exc |-> None, value |-> 0]
                ELSE int(h.content_length[1])
    IN  IF size.exc # None THEN [exc |-> size.exc, request |-> NoArgs]
        ELSE SenderCall(
                 {"api_key", "path", "query", "method", "request_size",
                  "apilytics_integration", "integrated_library"},
                 [NoArgs EXCEPT !.path = Some(h.path), !.method = Some(h.method),
                                !.query = h.query_string,
                                !.request_size = Some(size.value),
                                !.apilytics_integration = Some("apilytics-python-django"),
                                !.integrated_library = Some(integrated_library("django"))])

\* apilytics.fastapi.ApilyticsMiddleware.dispatch: the arguments of the sender.
fastapi_sender_args(h) ==
    SenderCall(
        {"api_key", "path", "query", "method", "request_size", "user_agent", "ip",
         "apilytics_integration", "integrated_library"},
        [NoArgs EXCEPT !.path = Some(h.path), !.method = Some(h.method),
                       !.query = Some(Or(h.query_string, "")),
                       !.request_size = Some(h.body_len),
                       !.user_agent = h.user_agent,
                       !.ip = Some(first_forwarded_for(h)),
                       !.apilytics_integration = Some("apilytics-python-fastapi"),
                       !.integrated_library = Some(integrated_library("fastapi"))])

\* apilytics.flask.apilytics_middleware.before_request: the arguments of the
\* sender, prevent_send_on_exit=True among them.
flask_sender_args(h) ==
    SenderCall(
        {"api_key", "path", "query", "method", "request_size", "user_agent", "ip",
         "apilytics_integration", "integrated_library", "prevent_send_on_exit"},
        [NoArgs EXCEPT !.path = Some(h.path), !.method = Some(h.method),
                       !.query = Some(Or(h.query_string, "")),
                       !.request_size = Some(h.body_len),
                       !.user_agent = h.user_agent,
                       !.ip = Some(first_forwarded_for(h)),
                       !.apilytics_integration = Some("apilytics-python-flask"),
                       !.integrated_library = Some(integrated_library("flask"))])

\* Django: len(getattr(response, "content", ())); a streaming response has no
\* content attribute.
django_response_info(r) ==
    [exc |-> None,
     info |-> [status_code |-> Some(r.status_code),
               response_size |-> Some(IF r.size = None THEN 0 ELSE r.size[1])]]

\* FastAPI and Flask: int(size) if size is not None else None, where size is
\* the response's content-length header.
header_response_info(r) ==
    LET size == IF r.content_length = None THEN [exc |-> None, value |-> 0]
                ELSE int(r.content_length[1])
    IN  [exc |-> size.exc,
         info |-> [status_code |-> Some(r.status_code),
                   response_size |-> IF r.content_length = None \/ size.exc # None
                                     THEN None ELSE Some(size.value)]]

\* The middleware evaluates the arguments and constructs the sender; an
\* exception on the way leaves the middleware before the handler was called.
construct(s, a) ==
    /\ app.state = "active"
    /\ pc[s] = "idle"
    /\ IF a.exc # None
       THEN /\ outcome' = [outcome EXCEPT ![s] = [exc |-> a.exc, response |-> None]]
            /\ pc' = [pc EXCEPT ![s] = IF app.framework = "flask" THEN "flask_after" ELSE "done"]
            /\ UNCHANGED <<app, platform_system, proc, http, last_info, submitted, args, ended, sess, handler_result, now,
                           class_executor, n_executors, queue, running, sample, posts, future>>
       ELSE init(s, {a.request})

django_call(s) == app.framework = "django" /\ construct(s, django_sender_args(http[s]))

fastapi_dispatch(s) == app.framework = "fastapi" /\ construct(s, fastapi_sender_args(http[s]))

\* Flask: before_request.  The sender's __init__ has no prevent_send_on_exit
\* parameter, so the call raises and the with-block, which would bind
\* flask.g.apilytics_sender, is not entered; Flask answers the request from its
\* error handling and still runs the other two hooks.
flask_before_request(s) == app.framework = "flask" /\ construct(s, flask_sender_args(http[s]))

\* Flask: after_request and teardown_request read flask.g.apilytics_sender,
\* which before_request has not bound: AttributeError, no set_response_info,
\* no send.
flask_after_request(s) ==
    /\ pc[s] = "flask_after"
    /\ args[s] = None
    /\ pc' = [pc EXCEPT ![s] = "flask_teardown"]
    /\ UNCHANGED <<app, platform_system, proc, http, last_info, submitted, args, ended, sess, handler_result, outcome, now,
                   class_executor, n_executors, queue, running, sample, posts, future>>

flask_teardown_request(s) ==
    /\ pc[s] = "flask_teardown"
    /\ args[s] = None
    /\ pc' = [pc EXCEPT ![s] = "done"]
    /\ UNCHANGED <<app, platform_system, proc, http, last_info, submitted, args, ended, sess, handler_result, outcome, now,
                   class_executor, n_executors, queue, running, sample, posts, future>>

\* The with-block after the handler has returned: set_response_info with what
\* the adapter reads off the response.  An exception of that reading is
\* raised in the with-block in place of the handler's return.
adapter_set_response_info(s) ==
    /\ pc[s] = "handled"
    /\ app.framework \in {"django", "fastapi"}
    /\ LET r == handler_result[s].response[1]
           i == IF app.framework = "django" THEN django_response_info(r)
                ELSE header_response_info(r)
       IN  IF i.exc # None
           THEN /\ handler_result' = [handler_result EXCEPT ![s].exc = i.exc]
                /\ pc' = [pc EXCEPT ![s] = "leaving"]
                /\ UNCHANGED <<app, platform_system, proc, http, last_info, submitted, args, ended, sess, outcome, now,
                               class_executor, n_executors, queue, running, sample, posts, future>>
           ELSE set_response_info(s, {i.info})

\* The with-statement of an adapter ends once its block has ended.
adapter_exit(s) == pc[s] = "leaving" /\ exit_check(s)

----------------------------------------------------------------------------
(* Environments: the inputs the actions draw from *)

\* User code that uses ApilyticsSender directly, with its own API key.
CoreApp == [framework |-> "core", api_key |-> Some("dummy-key"), state |-> "active"]

Request(path, method, query, request_size, user_agent, ip) ==
    [path |-> path, method |-> method, query |-> query, request_size |-> request_size,
     user_agent |-> user_agent, ip |-> ip,
     apilytics_integration |-> None, integrated_library |-> None]

\* Every combination of empty, missing and set request attributes.
AllRequests ==
    {Request(Some(p), Some(m), q, n, ua, ip) :
        p \in {"", "/"}, m \in {"GET"}, q \in OptStr, n \in OptSize, ua \in OptStr, ip \in OptStr}

FewRequests == {Request(Some("/"), Some("GET"), Some("v"), Some(0), Some(""), Some("v"))}

AllInfos == [status_code : OptStatus, response_size : OptSize]

FewInfos == {[status_code |-> Some(200), response_size |-> None]}

\* What a call made after the with-block passes.
LateInfos == {[status_code |-> Some(500), response_size |-> Some(5)]}

\* Requests of a caller that names itself and its framework, or does not.
MetaRequests ==
    {[Request(Some("/"), Some("GET"), None, None, None, None)
        EXCEPT !.apilytics_integration = i, !.integrated_library = l] :
        i \in {None, Some(""), Some("apilytics-python-django")},
        l \in {None, Some(""), Some("django/3.2.1")}}

Response(status_code, size) == [status_code |-> status_code, size |-> size]

Responses == {Response(200, Some(2))}

\* The first line of /proc/stat as the kernel writes it: "cpu", user, nice,
\* system, idle, then (since Linux 2.5.41) iowait, irq, softirq, steal and the
\* two guest counters.
StatA == StatRead(<<Word, Num(20), Num(0), Num(30), Num(100), Num(5), Num(0), Num(2), Num(1), Num(7), Num(7)>>)

StatB == StatRead(<<Word, Num(26), Num(0), Num(32), Num(130), Num(6), Num(0), Num(2), Num(2), Num(9), Num(9)>>)

StatOldA == StatRead(<<Word, Num(20), Num(0), Num(30), Num(100)>>)

StatOldB == StatRead(<<Word, Num(26), Num(0), Num(32), Num(130)>>)

StatDenied == StatFails("PermissionError")

Probe(meminfo, stat1, stat2) == [meminfo |-> meminfo, stat1 |-> stat1, stat2 |-> stat2]

MemBoth == MemInfo(Some(40), Some(30))

AllProbes ==
    {Probe(m, st[1], st[2]) :
        m \in {MemBoth, MemInfo(Some(40), None), MemInfo(None, Some(30)),
               MemInfo(None, None), MemFails("PermissionError")},
        st \in {<<StatA, StatB>>, <<StatA, StatA>>, <<StatOldA, StatOldB>>,
                <<StatDenied, StatDenied>>, <<StatA, StatDenied>>}}

\* A line in today's format and one in the format before Linux 2.5.41, by the
\* counters that differ between two reads.
StatLine(user, idle, iowait, steal, guest) ==
    StatRead(<<Word, Num(user), Num(0), Num(30), Num(idle), Num(iowait), Num(0), Num(2),
               Num(steal), Num(guest), Num(guest)>>)

StatOldLine(user, idle) == StatRead(<<Word, Num(user), Num(0), Num(30), Num(idle)>>)

\* Pairs of reads one second apart: counters only grow, each by nothing or by
\* something; and the reads that fail, at the first or at the second open.
StatPairs ==
    {<<StatLine(20, 100, 5, 1, 7), StatLine(20 + du, 100 + di, 5 + dw, 1 + ds, 7 + dg)>> :
        du \in {0, 6}, di \in {0, 30}, dw \in {0, 1}, ds \in {0, 1}, dg \in {0, 2}}
    \cup {<<StatOldLine(20, 100), StatOldLine(20 + du, 100 + di)>> : du \in {0, 6}, di \in {0, 30}}
    \cup {<<StatDenied, StatDenied>>, <<StatA, StatDenied>>,
          <<StatFails("FileNotFoundError"), StatA>>}

MemInfos ==
    {MemBoth, MemInfo(Some(2000000), Some(1500000)), MemInfo(Some(40), Some(40)),
     MemInfo(Some(40), None), MemInfo(None, Some(30)), MemInfo(None, None),
     MemFails("PermissionError")}

SamplerProbes == {Probe(m, st[1], st[2]) : m \in MemInfos, st \in StatPairs}

FewProbes == {Probe(MemBoth, StatA, StatB), Probe(MemBoth, StatDenied, StatDenied)}

\* How urlopen ends: with a response, or raising URLError (connection refused,
\* DNS failure, timeout while connecting), HTTPError (a non-2xx status),
\* RemoteDisconnected (the peer closed the connection before answering) or
\* socket.timeout (timeout while reading the response).
AllResults == {"ok", "URLError", "HTTPError", "RemoteDisconnected", "timeout"}

FewResults == {"ok", "URLError", "RemoteDisconnected"}

\* The HTTP requests an adapter is handed: with and without a User-Agent, an
\* X-Forwarded-For of no, one or several addresses, and a Content-Length that
\* is absent, empty (PEP 3333 allows it in the WSGI environment), numeric or
\* not numeric.
HttpRequestOf(query_string, content_length, user_agent, x_forwarded_for) ==
    [path |-> "/", method |-> "POST", query_string |-> query_string, body_len |-> 5,
     content_length |-> content_length, user_agent |-> user_agent,
     x_forwarded_for |-> x_forwarded_for]

ContentLengths == {None, Some(<<>>), Some(<<"5">>), Some(<<"1", "2">>), Some(<<"x">>)}

ForwardedFors ==
    {None, Some(<<>>), Some(<<"7">>), Some(<<" ", "7", " ", ",", "8", ",", "9">>), Some(<<",", "8">>)}

WebRequests ==
    {[s \in Sessions |-> IF s = 1 THEN HttpRequestOf(q, cl, ua, xff) ELSE NoHttp] :
        q \in {None, Some("a=1")}, cl \in ContentLengths,
        ua \in {None, Some(""), Some("some agent")}, xff \in ForwardedFors}

\* What a handler returns: a response with a body, one with an empty body, a
\* streaming response (no content attribute, no content-length header), an
\* error response, and a response whose handler set the header itself.
WebResponse(status_code, size, content_length) ==
    [status_code |-> status_code, size |-> size, content_length |-> content_length]

WebResponses ==
    {WebResponse(200, Some(2), Some(<<"2">>)), WebResponse(200, Some(0), Some(<<"0">>)),
     WebResponse(200, None, None), WebResponse(500, Some(2), Some(<<"2">>)),
     WebResponse(200, Some(2), Some(<<"x">>))}

WebApps ==
    {[framework |-> f, api_key |-> Some("dummy-key"), state |-> "new"] :
        f \in {"django", "fastapi", "flask"}}

----------------------------------------------------------------------------
(* Specifications *)

\* Spec: NumSessions requests served by concurrent threads of one process.
Init == InitWith(CoreApp, {"Linux"})

Next ==
    \/ \E s \in Sessions :
         \/ init(s, FewRequests)
         \/ enter(s)
         \/ handler(s, {0}, Responses)
         \/ set_response_info(s, FewInfos)
         \/ exit_check(s)
         \/ exit_create(s)
         \/ exit_submit(s)
    \/ \E e \in Executors :
         \/ worker_take(e)
         \/ send_metrics_sample(e, FewProbes)
         \/ send_metrics_post(e, FewResults)

Spec == Init /\ [][Next]_vars

\* SpecData: one request, with every combination of its inputs.
InitData == InitWith(CoreApp, {"Linux", "Darwin"})

NextData ==
    \/ init(1, AllRequests)
    \/ enter(1)
    \/ handler(1, {0, 999999, 1000000, 2500000}, Responses)
    \/ set_response_info(1, AllInfos)
    \/ exit_check(1)
    \/ exit_create(1)
    \/ exit_submit(1)
    \/ worker_take(1)
    \/ send_metrics_sample(1, AllProbes)
    \/ send_metrics_post(1, AllResults)

SpecData == InitData /\ [][NextData]_vars

\* SpecAdapter: an application behind one of the adapters, set up with or
\* without an API key.  The Flask hooks of an application that has a key call
\* the sender with prevent_send_on_exit and send(), which this core.py does
\* not have; that combination is left out here.
AdapterApps ==
    {[framework |-> f, api_key |-> k, state |-> "new"] :
        f \in {"django", "fastapi", "flask"}, k \in {None, Some(""), Some("dummy-key")}}
    \ {[framework |-> "flask", api_key |-> Some("dummy-key"), state |-> "new"]}

InitAdapter == \E a \in AdapterApps : InitWith(a, {"Linux"})

NextAdapter ==
    \/ setup
    \/ \E s \in Sessions :
         \/ passthrough(s, {0}, Responses)
         \/ init(s, FewRequests)
         \/ enter(s)
         \/ handler(s, {0}, Responses)
         \/ set_response_info(s, FewInfos)
         \/ exit_check(s)
         \/ exit_create(s)
         \/ exit_submit(s)
    \/ \E e \in Executors :
         \/ worker_take(e)
         \/ send_metrics_sample(e, FewProbes)
         \/ send_metrics_post(e, FewResults)

SpecAdapter == InitAdapter /\ [][NextAdapter]_vars

\* SpecReuse: user code that holds one session object and does with it what
\* the class lets it do: calls set_response_info after the with-block, uses
\* the object for another with-statement.
InitReuse == InitWith(CoreApp, {"Linux"})

NextReuse ==
    \/ init(1, FewRequests)
    \/ enter(1)
    \/ enter_again(1, {0, 1500000})
    \/ handler(1, {999999, 1500000}, Responses)
    \/ set_response_info(1, FewInfos)
    \/ set_response_info_late(1, LateInfos)
    \/ exit_check(1)
    \/ exit_create(1)
    \/ exit_submit(1)
    \/ worker_take(1)
    \/ send_metrics_sample(1, FewProbes)
    \/ send_metrics_post(1, {"ok"})

SpecReuse == InitReuse /\ [][NextReuse]_vars

SamplerRequests == FewRequests \cup MetaRequests

\* SpecSampler: one request, of a caller that names itself or not, on a host
\* whose /proc files are given: what the task reads from /proc/meminfo, and
\* from /proc/stat now and a second later.
InitSampler == InitState(CoreApp, {"Linux", "Darwin"}, SamplerProbes)

NextSampler ==
    \/ init(1, SamplerRequests)
    \/ enter(1)
    \/ handler(1, {0}, Responses)
    \/ set_response_info(1, FewInfos)
    \/ exit_check(1)
    \/ exit_create(1)
    \/ exit_submit(1)
    \/ worker_take(1)
    \/ send_metrics_sample(1, {proc})
    \/ send_metrics_post(1, FewResults)

SpecSampler == InitSampler /\ [][NextSampler]_vars

\* SpecWeb: one HTTP request to an application behind an adapter that was
\* set up with an API key.
InitWeb == \E a \in WebApps : InitHttp(a, {"Linux"}, {NoProbe}, WebRequests)

WebDurations == {0}

WebProbes == {Probe(MemBoth, StatA, StatB)}

WebResults == {"ok"}

NextWeb ==
    \/ setup
    \/ django_call(1)
    \/ fastapi_dispatch(1)
    \/ flask_before_request(1)
    \/ flask_after_request(1)
    \/ flask_teardown_request(1)
    \/ enter(1)
    \/ handler(1, WebDurations, WebResponses)
    \/ adapter_set_response_info(1)
    \/ adapter_exit(1)
    \/ exit_create(1)
    \/ exit_submit(1)
    \/ worker_take(1)
    \/ send_metrics_sample(1, WebProbes)
    \/ send_metrics_post(1, WebResults)

SpecWeb == InitWeb /\ [][NextWeb]_vars

\* SpecStat: one request on a Linux host whose /proc/stat does not begin with
\* the line the kernel documents: the first line is empty, has fewer than four
\* counters after "cpu", or has a field that is no number; at the first read,
\* at the second, or at both.
StatEmpty == StatRead(<<>>)

StatNoCounters == StatRead(<<Word>>)

StatThreeCounters == StatRead(<<Word, Num(20), Num(0), Num(30)>>)

StatNotNumeric == StatRead(<<Word, Num(20), Num(0), Num(30), Word, Num(5)>>)

StatLines == {StatA, StatEmpty, StatNoCounters, StatThreeCounters, StatNotNumeric}

StatProbes ==
    {Probe(m, s1, s2) : m \in {MemBoth, MemFails("PermissionError")},
                        s1 \in StatLines, s2 \in StatLines \cup {StatB}}

StatResults == {"ok", "URLError"}

InitStat == InitState(CoreApp, {"Linux"}, StatProbes)

NextStat ==
    \/ init(1, FewRequests)
    \/ enter(1)
    \/ handler(1, {0}, Responses)
    \/ set_response_info(1, FewInfos)
    \/ exit_check(1)
    \/ exit_create(1)
    \/ exit_submit(1)
    \/ worker_take(1)
    \/ send_metrics_sample(1, {proc})
    \/ send_metrics_post(1, StatResults)

SpecStat == InitStat /\ [][NextStat]_vars

\* SpecCalls: one request whose with-block calls set_response_info not at all
\* (the handler raises), once or several times, with every combination of
\* given and omitted arguments.
CallRequests == {Request(Some("/"), Some("GET"), Some("v"), Some(0), Some(""), Some("v"))}

CallInfos == [status_code : OptStatus, response_size : OptSize]

CallDurations == {0, 1500000}

CallProbes == {Probe(MemBoth, StatA, StatB)}

CallResults == {"ok"}

InitCalls == InitWith(CoreApp, {"Linux"})

NextCalls ==
    \/ init(1, CallRequests)
    \/ enter(1)
    \/ handler(1, CallDurations, Responses)
    \/ set_response_info(1, CallInfos)
    \/ set_response_info_again(1, CallInfos)
    \/ exit_check(1)
    \/ exit_create(1)
    \/ exit_submit(1)
    \/ worker_take(1)
    \/ send_metrics_sample(1, CallProbes)
    \/ send_metrics_post(1, CallResults)

SpecCalls == InitCalls /\ [][NextCalls]_vars

\* SpecFair: the requests of Spec from the moment on at which each has called
\* set_response_info and is about to leave its with-block, under the
\* scheduling that a ThreadPoolExecutor gives: the worker of an executor is a
\* thread of its own that the operating system keeps running, so its next
\* step, while one is possible, is taken: the sleep of the sampler ends, and
\* urlopen returns or raises, an error that _send_metrics catches or one that
\* it does not.  Nothing is assumed of the threads that serve the requests.
FairRequest == Request(Some("/"), Some("GET"), Some("v"), Some(0), Some(""), Some("v"))

FairSession ==
    [NoSession EXCEPT !.api_key = CoreApp.api_key,
                      !.path = FairRequest.path, !.method = FairRequest.method,
                      !.query = FairRequest.query, !.request_size = FairRequest.request_size,
                      !.user_agent = FairRequest.user_agent, !.ip = FairRequest.ip,
                      !.apilytics_version =
                          Some(apilytics_version_template("apilytics-python-core", "", "Linux")),
                      !.start_time_ns = Some(0),
                      !.status_code = Some(200)]

InitFair ==
    /\ app = CoreApp
    /\ platform_system = "Linux"
    /\ proc = NoProbe
    /\ http = [s \in Sessions |-> NoHttp]
    /\ args = [s \in Sessions |-> Some(FairRequest)]
    /\ ended = [s \in Sessions |-> <<>>]
    /\ pc = [s \in Sessions |-> "leaving"]
    /\ sess = [s \in Sessions |-> FairSession]
    /\ handler_result = [s \in Sessions |-> [exc |-> None, response |-> Some(Response(200, Some(2)))]]
    /\ outcome = [s \in Sessions |-> NoResult]
    /\ now = 0
    /\ class_executor = 0
    /\ n_executors = 0
    /\ queue = [e \in Executors |-> <<>>]
    /\ running = [e \in Executors |-> 0]
    /\ sample = [e \in Executors |-> NoSample]
    /\ posts = [s \in Sessions |-> <<>>]
    /\ submitted = <<>>
    /\ last_info = [s \in Sessions |-> None]
    /\ future = [s \in Sessions |-> "none"]

FairProbes == {Probe(MemBoth, StatA, StatB)}

FairResults == {"ok", "URLError", "RemoteDisconnected"}

\* The next step of the task that the worker of executor e runs or takes.
worker(e) ==
    \/ worker_take(e)
    \/ send_metrics_sample(e, FairProbes)
    \/ send_metrics_post(e, FairResults)

NextFair ==
    \/ \E s \in Sessions :
         \/ exit_check(s)
         \/ exit_create(s)
         \/ exit_submit(s)
    \/ \E e \in Executors : worker(e)

SpecFair == InitFair /\ [][NextFair]_vars /\ \A e \in Executors : WF_vars(worker(e))

----------------------------------------------------------------------------
(* Properties *)

RequiredKeys == {"path", "method", "timeMillis"}

StringKeys == {"query", "userAgent", "ip"}

\* The keys the body of session attributes `self` and samples `smp` is to have.
ExpectedKeys(self, smp) ==
    RequiredKeys
    \cup (IF Truthy(self.query) THEN {"query"} ELSE {})
    \cup (IF Truthy(self.user_agent) THEN {"userAgent"} ELSE {})
    \cup (IF Truthy(self.ip) THEN {"ip"} ELSE {})
    \cup (IF self.status_code # None THEN {"statusCode"} ELSE {})
    \cup (IF self.request_size # None THEN {"requestSize"} ELSE {})
    \cup (IF self.response_size # None THEN {"responseSize"} ELSE {})
    \cup (IF smp.cpu_usage # None THEN {"cpuUsage"} ELSE {})
    \cup (IF smp.memory_usage # None THEN {"memoryUsage"} ELSE {})
    \cup (IF smp.memory_total # None THEN {"memoryTotal"} ELSE {})

\* C1: the JSON body has exactly the keys path, method, timeMillis, the string
\* keys whose value is a non-empty string and the number keys whose value is
\* known (0 included); no optional key is sent as null or as "".
C1_PayloadKeySet ==
    \A i \in 1 .. Len(posts[1]) :
        LET d == posts[1][i].data
        IN  /\ DOMAIN d = ExpectedKeys(sess[1], sample[1])
            /\ \A k \in DOMAIN d \ RequiredKeys : d[k] # None
            /\ \A k \in DOMAIN d \cap StringKeys : d[k] # Some("")
            /\ sess[1].request_size = Some(0) => d["requestSize"] = Some(0)
            /\ sess[1].response_size = Some(0) => d["responseSize"] = Some(0)
            /\ sess[1].status_code = Some(0) => d["statusCode"] = Some(0)

C1_Witness ==
    /\ Len(posts[1]) = 1
    /\ sess[1].query = Some("") /\ sess[1].user_agent = None /\ sess[1].ip = Some("v")
    /\ sess[1].request_size = Some(0) /\ sess[1].response_size = None
    /\ sess[1].status_code = Some(0)
    /\ sample[1].cpu_usage = None /\ sample[1].memory_total # None
    /\ DOMAIN posts[1][1].data =
         {"path", "method", "timeMillis", "ip", "requestSize", "statusCode", "memoryTotal"}

\* How many tasks were submitted for session s: waiting, running or ended.
TaskCount(s) ==
    Cardinality({<<e, i>> \in Executors \X (1 .. NumSessions) :
                    i <= Len(queue[e]) /\ queue[e][i] = s})
    + Cardinality({e \in Executors : running[e] = s})
    + (IF future[s] \in {"none", "pending"} THEN 0 ELSE 1)

Drained == \A e \in Executors : queue[e] = <<>> /\ running[e] = 0

\* C2: every end of a with-block, normal or by an exception, records the end
\* time and submits exactly one task, and a task calls urlopen exactly once
\* however the call ends; when N sessions have ended and the workers have
\* drained, N calls were made.
C2_OneSubmitOnePost ==
    /\ \A s \in Sessions :
          /\ pc[s] = "done" => sess[s].end_time_ns # None /\ TaskCount(s) = 1
          /\ pc[s] # "done" => TaskCount(s) = 0
          /\ Len(posts[s]) = (IF future[s] \in {"none", "pending"} THEN 0 ELSE 1)
    /\ Drained => Cardinality({s \in Sessions : pc[s] = "done"})
                    = Cardinality({s \in Sessions : Len(posts[s]) = 1})

C2_Witness ==
    /\ \A s \in Sessions : pc[s] = "done" /\ Len(posts[s]) = 1
    /\ Drained
    /\ \E s \in Sessions : handler_result[s].exc # None
    /\ \E s \in Sessions : handler_result[s].exc = None
    /\ \E s \in Sessions : posts[s][1].result # "ok"

\* C3: when the handler raises before set_response_info is called, the task is
\* still submitted and posts once, and the body has neither statusCode nor
\* responseSize but has path, method, timeMillis and the known request attributes.
C3_RaisingHandlerStillSends ==
    handler_result[1].exc # None =>
        /\ pc[1] = "done" => future[1] # "none"
        /\ Len(posts[1]) = (IF future[1] \in {"none", "pending"} THEN 0 ELSE 1)
        /\ \A i \in 1 .. Len(posts[1]) :
              LET d == posts[1][i].data
              IN  /\ "statusCode" \notin DOMAIN d
                  /\ "responseSize" \notin DOMAIN d
                  /\ RequiredKeys \subseteq DOMAIN d
                  /\ d["path"] = sess[1].path /\ d["method"] = sess[1].method
                  /\ Truthy(sess[1].query) => d["query"] = sess[1].query
                  /\ Truthy(sess[1].user_agent) => d["userAgent"] = sess[1].user_agent
                  /\ Truthy(sess[1].ip) => d["ip"] = sess[1].ip
                  /\ sess[1].request_size # None => d["requestSize"] = sess[1].request_size

C3_Witness ==
    /\ handler_result[1].exc = Some("RuntimeError")
    /\ Len(posts[1]) = 1
    /\ sess[1].request_size = Some(5) /\ sess[1].query = Some("v")
    /\ "statusCode" \notin DOMAIN posts[1][1].data

\* C4: the with-statement ends with exactly what its block ended with: the
\* exception the handler raised, or its normal result.
C4_HandlerOutcomeUnchanged ==
    \A s \in Sessions : pc[s] = "done" => outcome[s] = handler_result[s]

C4_Witness ==
    /\ \E s \in Sessions : pc[s] = "done" /\ outcome[s].exc = Some("RuntimeError")
    /\ \E s \in Sessions : pc[s] = "done" /\ outcome[s].response # None

\* C5: when urlopen raises, the session has already ended normally and the
\* error does not reach the thread that ended it.
C5_PostErrorNotPropagated ==
    \A s \in Sessions :
        \A i \in 1 .. Len(posts[s]) :
            posts[s][i].result # "ok" =>
                pc[s] = "done" /\ outcome[s].exc = handler_result[s].exc

C5_Witness ==
    \E s \in Sessions :
        /\ Len(posts[s]) = 1
        /\ posts[s][1].result = "URLError"
        /\ outcome[s].exc = None

\* C6: whatever way urlopen fails, _send_metrics catches the failure and does
\* not raise: no task ends with an exception.
C6_SendNeverRaises ==
    \A s \in Sessions : future[s] \in {"none", "pending", "finished"}

\* C7: at most one executor is ever constructed, whatever the number of
\* sessions and however the threads that end them interleave.
C7_AtMostOneExecutor == n_executors <= 1

\* C8: at most one send task executes at any moment.
C8_AtMostOneTaskRunning == Cardinality({e \in Executors : running[e] # 0}) <= 1

\* C9: __exit__ never waits: each of its steps can be taken whatever the
\* queues hold and whatever the workers do, and how the task ends changes
\* nothing of what the caller got.
C9_ExitNeverBlocks ==
    \A s \in Sessions :
        /\ pc[s] \in {"handled", "leaving"} => ENABLED exit_check(s)
        /\ pc[s] = "create" => ENABLED exit_create(s)
        /\ pc[s] = "submit" => ENABLED exit_submit(s)
        /\ future[s] \notin {"none", "pending"} => outcome[s] = with_outcome(handler_result[s])

C9_Witness ==
    \E s, t \in Sessions, e \in Executors :
        /\ s # t
        /\ running[e] = s /\ ~sample[e].taken
        /\ queue[e] = <<t>>
        /\ pc[t] = "done" /\ future[t] = "pending"

\* C10: an application set up without an API key (None or "") creates no
\* session, no executor and no call of urlopen, and each request ends with
\* what the handler returned or raised.
C10_NoKeyNoSession ==
    ~Truthy(app.api_key) =>
        /\ n_executors = 0
        /\ \A s \in Sessions :
              /\ sess[s] = NoSession
              /\ posts[s] = <<>>
              /\ future[s] = "none"
              /\ pc[s] = "done" => outcome[s] = handler_result[s]

C10_Witness ==
    /\ app.api_key = Some("")
    /\ \A s \in Sessions : pc[s] = "done"
    /\ \E s \in Sessions : outcome[s].response # None

\* The bodies session s has sent, by the with-statement that submitted them.
Sent(s) == {i \in 1 .. Len(posts[s]) : i <= Len(ended[s])}

\* Key k of body d carries the optional value v, and is missing where v is None.
BodyHas(d, k, v) == IF v = None THEN k \notin DOMAIN d ELSE k \in DOMAIN d /\ d[k] = v

\* The i-th body of session s says what the session was when its i-th
\* with-block ended.
SnapshotSent(s, i) ==
    LET d    == posts[s][i].data
        self == ended[s][i].self
    IN  /\ BodyHas(d, "statusCode", self.status_code)
        /\ BodyHas(d, "responseSize", self.response_size)
        /\ BodyHas(d, "timeMillis", Some((self.end_time_ns[1] - self.start_time_ns[1]) \div 1000000))

\* C11 as stated: whatever is called on the session after the with-block has
\* ended, the body that is sent is the snapshot of the session at that end.
C11_PayloadIsSnapshotAtEnd == \A s \in Sessions : \A i \in Sent(s) : SnapshotSent(s, i)

\* C11 amended: the body is built from the session as it is when the task
\* builds it, so it is the snapshot of the session at the end of the
\* with-block where nothing was called on the session in between; a call made
\* after the body was built changes nothing of what was sent.
C11_UntouchedPayloadIsSnapshot ==
    \A s \in Sessions : \A i \in Sent(s) : ~ended[s][i].touched => SnapshotSent(s, i)

\* A late set_response_info(500) that came after the body was built: the body
\* does not carry it.
C11_Witness ==
    /\ Len(posts[1]) = 1
    /\ ~ended[1][1].touched
    /\ sess[1].status_code = Some(500)
    /\ BodyHas(posts[1][1].data, "statusCode", Some(200))

\* The nanoseconds between the begin and the end of the i-th with-block of
\* session s.
Elapsed(s, i) == ended[s][i].self.end_time_ns[1] - ended[s][i].self.start_time_ns[1]

\* t is e nanoseconds in whole milliseconds, truncated.
Truncated(t, e) == t >= 0 /\ t * 1000000 <= e /\ e < (t + 1) * 1000000

\* C12 as stated: after any sequence of begin, set_response_info and end,
\* timeMillis is present, not negative, and the truncated elapsed time.
C12_TimeMillisAnySequence ==
    \A s \in Sessions : \A i \in Sent(s) :
        /\ "timeMillis" \in DOMAIN posts[s][i].data
        /\ Truncated(posts[s][i].data["timeMillis"][1], Elapsed(s, i))

\* C12 amended: unless the session is entered again between the end of the
\* with-block and the moment the task builds the body, timeMillis is present,
\* not negative, and the elapsed nanoseconds in milliseconds, truncated; and of
\* two such bodies the one with the larger elapsed time has no smaller timeMillis.
C12_TimeMillisTruncated ==
    \A s \in Sessions : \A i \in Sent(s) :
        ~ended[s][i].restarted =>
            /\ "timeMillis" \in DOMAIN posts[s][i].data
            /\ Truncated(posts[s][i].data["timeMillis"][1], Elapsed(s, i))
            /\ \A j \in Sent(s) :
                   ~ended[s][j].restarted /\ Elapsed(s, i) <= Elapsed(s, j)
                       => posts[s][i].data["timeMillis"][1] <= posts[s][j].data["timeMillis"][1]

\* Two bodies of one session, of 999999 ns (0 ms, where rounding gives 1) and
\* of 1500000 ns (1 ms, where rounding gives 2).
C12_Witness ==
    /\ Len(posts[1]) = 2
    /\ ~ended[1][1].restarted /\ ~ended[1][2].restarted
    /\ Elapsed(1, 1) = 999999 /\ posts[1][1].data["timeMillis"] = Some(0)
    /\ Elapsed(1, 2) = 1500000 /\ posts[1][2].data["timeMillis"] = Some(1)

\* C13: every send is a POST to the one ingestion URL with exactly the headers
\* Content-Type: application/json, X-API-Key (the session's key) and
\* Apilytics-Version (the session's metadata string); the body has only its
\* twelve known keys, and none of its strings is the key or the metadata string.
C13_FixedRequestKeyOnlyInHeader ==
    \A s \in Sessions : \A i \in 1 .. Len(posts[s]) :
        LET q == posts[s][i].request
            d == posts[s][i].data
        IN  /\ q.url = "https://www.apilytics.io/api/v1/middleware"
            /\ q.method = "POST"
            /\ DOMAIN q.headers = {"Content-Type", "X-API-Key", "Apilytics-Version"}
            /\ q.headers["Content-Type"] = "application/json"
            /\ q.headers["X-API-Key"] = sess[s].api_key[1]
            /\ q.headers["Apilytics-Version"] = sess[s].apilytics_version[1]
            /\ DOMAIN d \subseteq RequiredKeys \cup StringKeys
                              \cup {"statusCode", "requestSize", "responseSize",
                                    "cpuUsage", "memoryUsage", "memoryTotal"}
            /\ \A k \in DOMAIN d \cap ({"path", "method"} \cup StringKeys) :
                   /\ d[k] # sess[s].api_key
                   /\ Text(d[k][1]) # sess[s].apilytics_version[1]

\* A request with a query string and an address has been sent with the key in
\* its header.
C13_Witness ==
    /\ Len(posts[1]) = 1
    /\ posts[1][1].request.headers["X-API-Key"] = "dummy-key"
    /\ {"query", "ip"} \subseteq DOMAIN posts[1][1].data

Omitted(s, ks) == \A i \in 1 .. Len(posts[s]) : DOMAIN posts[s][i].data \cap ks = {}

\* The task of session s has ended, whatever urlopen did.
TaskOver(s) == future[s] \notin {"none", "pending"}

BothRead == sample[1].taken /\ platform_system = "Linux"
            /\ proc.stat1.err = None /\ proc.stat2.err = None

\* The k-th counter of a line of /proc/stat (the line starts with "cpu").
Field(line, k) == line[k + 1].val

\* The sum of the first eight counters, or of the four an old kernel writes.
TotalOf(line) ==
    IF Len(line) >= 9
    THEN Field(line, 1) + Field(line, 2) + Field(line, 3) + Field(line, 4)
         + Field(line, 5) + Field(line, 6) + Field(line, 7) + Field(line, 8)
    ELSE Field(line, 1) + Field(line, 2) + Field(line, 3) + Field(line, 4)

\* idle plus iowait, or idle alone where the line has no iowait.
IdleOf(line) == IF Len(line) >= 6 THEN Field(line, 4) + Field(line, 5) ELSE Field(line, 4)

DeltaTotal == TotalOf(proc.stat2.line) - TotalOf(proc.stat1.line)

DeltaIdle == IdleOf(proc.stat2.line) - IdleOf(proc.stat1.line)

\* Every body posted carries key k with value v.
Carried(k, v) ==
    \A i \in 1 .. Len(posts[1]) :
        k \in DOMAIN posts[1][i].data /\ posts[1][i].data[k] = v

\* C16: on Linux, where the total differs between the two reads, the sample
\* is 1 - delta idle / delta total, with total the sum of the first eight
\* counters (of those present on an old kernel) and idle the idle counter plus
\* iowait (idle alone where there is no iowait); the body carries it.
C16_CpuUsageFormula ==
    BothRead /\ DeltaTotal # 0 =>
        /\ sample[1].cpu_usage # None
        /\ LET v == sample[1].cpu_usage[1]
           IN  v[2] # 0 /\ v[1] * DeltaTotal = (DeltaTotal - DeltaIdle) * v[2]
        /\ Carried("cpuUsage", sample[1].cpu_usage)

\* Every counter has grown, the guest counters too: of 38 ticks 31 were idle.
C16_Witness ==
    /\ BothRead /\ Len(posts[1]) = 1
    /\ proc.stat2 = StatLine(26, 130, 6, 2, 9)
    /\ posts[1][1].data["cpuUsage"] = Some(<<7, 38>>)

\* C17: where the two reads have the same total, the sample is 0.0: the body
\* carries cpuUsage with value 0, the task does not end with
\* ZeroDivisionError, and urlopen is called once.
C17_ZeroDeltaIsZero ==
    BothRead /\ DeltaTotal = 0 =>
        /\ sample[1].cpu_usage # None
        /\ sample[1].cpu_usage[1][1] = 0 /\ sample[1].cpu_usage[1][2] # 0
        /\ Carried("cpuUsage", sample[1].cpu_usage)
        /\ future[1] # "ZeroDivisionError"
        /\ TaskOver(1) => Len(posts[1]) = 1

\* Only the guest counters have grown between the reads: the body went out
\* with cpuUsage 0.
C17_Witness ==
    /\ BothRead /\ TaskOver(1) /\ Len(posts[1]) = 1
    /\ proc.stat2 = StatLine(20, 100, 5, 1, 9)
    /\ posts[1][1].data["cpuUsage"] = Some(<<0, 1>>)

\* C18: a cpuUsage that is sent lies in [0, 1], for reads between which no
\* counter has shrunk.
C18_CpuUsageInUnitInterval ==
    \A s \in Sessions : \A i \in 1 .. Len(posts[s]) :
        "cpuUsage" \in DOMAIN posts[s][i].data =>
            LET v == posts[s][i].data["cpuUsage"][1]
            IN  v[2] > 0 /\ 0 <= v[1] /\ v[1] <= v[2]

\* Both ends of the interval have been sent: no idle tick at all between the
\* reads (1.0), or idle ticks only (0.0).
C18_Witness ==
    /\ BothRead /\ Len(posts[1]) = 1
    /\ DeltaTotal # 0 /\ DeltaIdle \in {0, DeltaTotal}
    /\ posts[1][1].data["cpuUsage"] \in {Some(<<DeltaTotal, DeltaTotal>>), Some(<<0, DeltaTotal>>)}

\* The task has sampled on Linux, and /proc/meminfo could be read.
MemRead == sample[1].taken /\ platform_system = "Linux" /\ proc.meminfo.err = None

\* C19: on Linux, where /proc/meminfo has both MemTotal and MemAvailable,
\* memoryTotal is MemTotal * 1024 and memoryUsage (MemTotal - MemAvailable) * 1024.
C19_MemoryInBytes ==
    MemRead /\ proc.meminfo.total # None /\ proc.meminfo.available # None =>
        /\ Carried("memoryTotal", Some(proc.meminfo.total[1] * 1024))
        /\ Carried("memoryUsage",
                   Some((proc.meminfo.total[1] - proc.meminfo.available[1]) * 1024))

\* 2000000 kB of which 1500000 kB are available: 512000000 bytes in use.
C19_Witness ==
    /\ MemRead /\ Len(posts[1]) = 1
    /\ proc.meminfo = MemInfo(Some(2000000), Some(1500000))
    /\ posts[1][1].data["memoryUsage"] = Some(512000000)
    /\ posts[1][1].data["memoryTotal"] = Some(2048000000)

\* C20: where MemTotal is not found, neither memoryUsage nor memoryTotal is
\* sent, MemAvailable found or not; where MemTotal is found and MemAvailable
\* is not, memoryTotal is sent and memoryUsage is not.
C20_MemoryTotalFirst ==
    /\ MemRead /\ proc.meminfo.total = None => Omitted(1, {"memoryUsage", "memoryTotal"})
    /\ MemRead /\ proc.meminfo.total # None /\ proc.meminfo.available = None =>
           /\ Omitted(1, {"memoryUsage"})
           /\ Carried("memoryTotal", Some(proc.meminfo.total[1] * 1024))

\* MemAvailable alone was found, and the body went out with no memory field.
C20_Witness ==
    /\ MemRead /\ Len(posts[1]) = 1
    /\ proc.meminfo = MemInfo(None, Some(30))
    /\ DOMAIN posts[1][1].data \cap {"memoryUsage", "memoryTotal"} = {}

----------------------------------------------------------------------------
(* The adapters *)

\* The address an adapter is to report for an X-Forwarded-For header: the
\* first entry without its surrounding whitespace, none where there is no
\* header or the entry is empty.
ExpectedIp(x_forwarded_for) ==
    CASE x_forwarded_for = None -> None
      [] x_forwarded_for = Some(<<>>) -> None
      [] x_forwarded_for = Some(<<"7">>) -> Some("7")
      [] x_forwarded_for = Some(<<" ", "7", " ", ",", "8", ",", "9">>) -> Some("7")
      [] x_forwarded_for = Some(<<",", "8">>) -> None

\* C21: every body an adapter sends carries the request's User-Agent header as
\* userAgent and the first entry of its X-Forwarded-For header, trimmed, as ip,
\* and has no such key where the header is absent or empty.
C21_AdaptersReportUserAgentAndIp ==
    \A i \in 1 .. Len(posts[1]) :
        LET d == posts[1][i].data
            h == http[1]
        IN  /\ BodyHas(d, "userAgent", IF Truthy(h.user_agent) THEN h.user_agent ELSE None)
            /\ BodyHas(d, "ip", ExpectedIp(h.x_forwarded_for))

\* The handler of request s has returned a streaming response.
Streamed(s) ==
    /\ handler_result[s].exc = None
    /\ handler_result[s].response # None
    /\ handler_result[s].response[1].size = None
    /\ handler_result[s].response[1].content_length = None

\* C22: when the handler returned a streaming response and the request and
\* its task are over, urlopen was called exactly once, and the body has no
\* responseSize but has the response's statusCode and a requestSize.
C22_StreamingOmitsResponseSize ==
    (Streamed(1) /\ pc[1] = "done" /\ Drained) =>
        /\ Len(posts[1]) = 1
        /\ "responseSize" \notin DOMAIN posts[1][1].data
        /\ BodyHas(posts[1][1].data, "statusCode", Some(handler_result[1].response[1].status_code))
        /\ "requestSize" \in DOMAIN posts[1][1].data

\* What the handler of request s itself returned or raised, if it was called.
HandlerOwn(s) ==
    IF handler_result[s].response # None
    THEN [exc |-> None, response |-> handler_result[s].response]
    ELSE handler_result[s]

\* C23: a request to an application whose adapter has a key ends with what
\* its handler returned or raised, and with nothing else: the handler was
\* called, and no exception of the adapter's own takes the place of its result.
C23_AdapterAddsNoError ==
    pc[1] = "done" => outcome[1] # NoResult /\ outcome[1] = HandlerOwn(1)

\* C24: a request to a Flask application whose adapter has a key, once its
\* three hooks have run and the worker is idle, has led to exactly one call of
\* urlopen: the sender was constructed and timed in before_request, nothing
\* was sent before teardown_request, and the body carries the statusCode that
\* after_request recorded.
C24_FlaskSendsOncePerRequest ==
    (app.framework = "flask" /\ pc[1] = "done" /\ Drained) =>
        /\ args[1] # None
        /\ sess[1].start_time_ns # None
        /\ Len(posts[1]) = 1
        /\ "statusCode" \in DOMAIN posts[1][1].data

----------------------------------------------------------------------------
(* The dispatcher *)

\* C25: tasks run in the order of their submission: a task that a worker has
\* started is the earliest submitted of the tasks that have not ended, so no
\* task starts while a task submitted before it has yet to call urlopen.
C25_TasksRunInSubmissionOrder ==
    \A e \in Executors :
        running[e] # 0 => submitted # <<>> /\ Head(submitted) = running[e]

\* C26: a task handed to an executor is neither cancelled nor dropped: where
\* the workers run and urlopen returns or raises, every session whose
\* with-block has ended and submitted its task is followed by a call of
\* urlopen for that session, however many tasks were queued ahead of it.
C26_SubmittedTaskRuns ==
    \A s \in Sessions : (future[s] = "pending") ~> (Len(posts[s]) = 1 /\ TaskOver(s))

\* Every task has ended after one call of urlopen, all through one executor
\* (so that one task waited for the other), and one of the calls failed.
C26_Witness ==
    /\ n_executors = 1
    /\ Drained
    /\ \A s \in Sessions : Len(posts[s]) = 1 /\ TaskOver(s)
    /\ posts[1][1].result = "URLError"

----------------------------------------------------------------------------
(* set_response_info *)

NoArguments == [status_code |-> None, response_size |-> None]

\* The arguments of the last call on session s; a session on which the call
\* was never made counts as called with no arguments.
LastCall(s) == IF last_info[s] = None THEN NoArguments ELSE last_info[s][1]

\* C27: the session's status code and response size are at any time the two
\* arguments of the last set_response_info call, None for an omitted one and
\* for a session never called; every body carries statusCode and responseSize
\* of the last call made before the with-block ended, and neither key where
\* that call omitted it; and a step that makes the call changes no other
\* attribute of the session.
C27_LastCallReplacesBoth ==
    /\ [](/\ sess[1].status_code = LastCall(1).status_code
          /\ sess[1].response_size = LastCall(1).response_size
          /\ \A i \in 1 .. Len(posts[1]) :
                /\ BodyHas(posts[1][i].data, "statusCode", LastCall(1).status_code)
                /\ BodyHas(posts[1][i].data, "responseSize", LastCall(1).response_size))
    /\ [][last_info'[1] # last_info[1] =>
             sess'[1] = [sess[1] EXCEPT !.status_code = LastCall(1).status_code',
                                        !.response_size = LastCall(1).response_size']]_vars

\* The handler returned, the last call in the with-block passed no arguments,
\* nothing was called after the block, and the body has neither key.
C27_Witness ==
    /\ last_info[1] = Some(NoArguments)
    /\ ended[1] # <<>> /\ ended[1][1].touched = FALSE
    /\ Len(posts[1]) = 1
    /\ DOMAIN posts[1][1].data \cap {"statusCode", "responseSize"} = {}
    /\ handler_result[1].exc = None

\* The task of session s has ended with an exception that left _send_metrics.
TaskRaised(s) == future[s] \notin {"none", "pending", "finished"}

\* C28: a task that ends with an exception leaves its worker able to run the
\* tasks that follow: where the workers run, every task that is pending while
\* another has ended with an exception is followed by its own call of
\* urlopen; and no request whose with-block has ended sees an exception that
\* its handler did not raise.
C28_RaisingTaskLeavesWorkerRunning ==
    /\ \A t \in Sessions :
          ((future[t] = "pending" /\ \E s \in Sessions : TaskRaised(s)) ~> (Len(posts[t]) = 1))
    /\ [](\A s \in Sessions : pc[s] = "done" => outcome[s].exc = handler_result[s].exc)

\* Through one executor: the task of session 1 has ended with
\* RemoteDisconnected, no request saw it, and the worker has since taken the
\* task of session 2 and sampled for it: its call of urlopen is next.
C28_Witness ==
    /\ n_executors = 1
    /\ future[1] = "RemoteDisconnected"
    /\ Len(posts[1]) = 1
    /\ running[1] = 2
    /\ sample[1].taken
    /\ pc[1] = "done" /\ outcome[1].exc = None

----------------------------------------------------------------------------
(* A /proc/stat that cannot be parsed *)

\* The line was read, and it is not "cpu" followed by at least four numbers
\* and numbers only in the fields the sampler converts.
Unparsable(read) ==
    /\ read.err = None
    /\ \/ Len(read.line) < 5
       \/ \E i \in 2 .. Len(read.line) : i <= 9 /\ ~read.line[i].num

\* C29: whatever the first line of /proc/stat holds, the sampler raises
\* nothing: no task ends with an exception of the sampler, a task that has
\* ended has called urlopen exactly once, and the body of a task that read an
\* unparsable line has no cpuUsage.
C29_UnparsableStatStillSends ==
    /\ future[1] \notin {"IndexError", "ValueError"}
    /\ TaskOver(1) =>
          /\ Len(posts[1]) = 1
          /\ (Unparsable(proc.stat1) \/ Unparsable(proc.stat2)) =>
                "cpuUsage" \notin DOMAIN posts[1][1].data

----------------------------------------------------------------------------
(* The memory fields of a body *)

\* What /proc/meminfo says, where it says both, has MemAvailable <= MemTotal.
AvailableWithinTotal ==
    (proc.meminfo.err = None /\ proc.meminfo.total # None /\ proc.meminfo.available # None)
        => proc.meminfo.available[1] <= proc.meminfo.total[1]

\* C30: a body that has memoryUsage has memoryTotal too, and then, for a
\* source whose MemAvailable does not exceed its MemTotal, memoryUsage is at
\* least 0 and at most memoryTotal.
C30_MemoryUsageWithinTotal ==
    \A i \in 1 .. Len(posts[1]) :
        LET d == posts[1][i].data
        IN  "memoryUsage" \in DOMAIN d =>
                /\ "memoryTotal" \in DOMAIN d
                /\ AvailableWithinTotal =>
                      /\ 0 <= d["memoryUsage"][1]
                      /\ d["memoryUsage"][1] <= d["memoryTotal"][1]

\* 40 kB of which 30 kB are available: the body has both fields, 10240 bytes
\* of 40960 in use.
C30_Witness ==
    /\ Len(posts[1]) = 1
    /\ proc.meminfo = MemBoth
    /\ {"memoryUsage", "memoryTotal"} \subseteq DOMAIN posts[1][1].data
    /\ posts[1][1].data["memoryUsage"] = Some(10240)
    /\ posts[1][1].data["memoryTotal"] = Some(40960)

====
